---- MODULE Spec2Model ----
(***************************************************************************)
(* coindata: the validate-then-refresh file cache (JSONDataCache.get) and  *)
(* the date-range scan of a price source (Source.range), as state          *)
(* machines translated from src/coindata/source.py.                        *)
(***************************************************************************)
EXTENDS Integers, Sequences, FiniteSets, TLC

\* Largest number occurring in a payload of the bounded payload universe.
MaxNum == 1

\* Calendar days are 0..MaxDay; a datetime is day * TicksPerDay + time of day.
MaxDay == 2

\* Longest list of price samples handed to ETHPrice.__clean_raw_data.
MaxSamples == 3

TicksPerDay == 2

VARIABLES
    file,       \* the cache file: [exists, text], text a sequence of JSON tokens
    upstream,   \* what the queryer yields when called: [ok, val]
    accepted,   \* the payloads for which the validator returns true right now
    pc,         \* position of the caller inside JSONDataCache.get()
    data,       \* the local variable `data` of get()
    result,     \* what get() handed to its caller: [kind, val, err]
    nfetch,     \* queryer invocations made by the current get() call
    nwrite,     \* opens of the cache file for writing made by the current call
    file0,      \* the cache file as it was when the current get() call began
    prev,       \* summary of the get() call that preceded the current one
    self_data,  \* Source: the mapping self._data, calendar day -> price
    date_start, \* range(): argument date_start
    date_end,   \* range(): argument date_end
    current,    \* range(): the local variable `current`
    rpc,        \* range(): position of the generator
    out,        \* range(): the pairs yielded so far
    gens,       \* the generators obtained from range(): each its own locals
    price_ret,  \* the last price() call: [called, arg, val]
    raw,        \* __clean_raw_data: the argument `data`
    idx,        \* __clean_raw_data: the local `idx`
    cleaned,    \* __clean_raw_data: the local `cleaned`, day -> price in cents
    clean_pc,   \* __clean_raw_data: position
    taken,      \* __clean_raw_data: how often each sample entered a group
    source_name,  \* get_source: the argument, a sequence of characters
    constructor,  \* get_source: the registry entry found, or "none"
    today,        \* the calendar day of datetime.now()
    gs_pc,        \* get_source: position
    gs_result,    \* get_source: the source returned or the exception raised
    procs,        \* two processes in get() on one cache name: [pc, data, result]
    lastw         \* the process whose json.dump reached the file last, 0 if none

cacheVars == <<file, upstream, accepted, pc, data, result, nfetch, nwrite, file0, prev>>

rangeVars == <<self_data, date_start, date_end, current, rpc, out>>

queryVars == <<gens, price_ret>>

\* The variables added to those of the cache and of the single generator.
cleanVars == <<raw, idx, cleaned, clean_pc, taken>>

buildVars == <<source_name, constructor, today, gs_pc, gs_result>>

procVars == <<procs, lastw>>

restVars == <<queryVars, cleanVars, buildVars, procVars>>

vars == <<cacheVars, rangeVars, restVars>>

----------------------------------------------------------------------------
\* JSON values as json.load / json.loads build them.  One record shape for
\* every kind; a list item has key "", a dict item its key.

JNull == [kind |-> "null", num |-> 0, str |-> "", items |-> << >>]

JNum(n) == [kind |-> "num", num |-> n, str |-> "", items |-> << >>]

JStr(s) == [kind |-> "str", num |-> 0, str |-> s, items |-> << >>]

JList(its) == [kind |-> "list", num |-> 0, str |-> "", items |-> its]

JDict(its) == [kind |-> "dict", num |-> 0, str |-> "", items |-> its]

Item(k, v) == [key |-> k, val |-> v]

\* Python truth value of a loaded JSON value (`if data`, `if not data`).
Truthy(v) ==
    CASE v.kind = "null" -> FALSE
      [] v.kind = "num"  -> v.num # 0
      [] v.kind = "str"  -> v.str # ""
      [] OTHER           -> Len(v.items) > 0

----------------------------------------------------------------------------
\* json.dump: a value to the token text written to the file.

Digits == <<"0", "1", "2", "3", "4", "5", "6", "7", "8", "9">>

DigitSet == {Digits[i] : i \in 1..10}

DigitVal(c) == (CHOOSE i \in 1..10 : Digits[i] = c) - 1

Punct == {"[", "]", "{", "}", ",", ":", "\"", "'", "null"}

RECURSIVE NumText(_)
NumText(n) ==
    IF n < 10 THEN <<Digits[n + 1]>>
    ELSE NumText(n \div 10) \o <<Digits[(n % 10) + 1]>>

DumpStrSingleQuoted(s) ==
    IF s = "" THEN <<"'", "'">> ELSE <<"'", s, "'">>

DumpStr(s) ==
    IF s = "" THEN <<"\"", "\"">> ELSE <<"\"", s, "\"">>

RECURSIVE Dump(_)
RECURSIVE DumpItems(_, _)
DumpItems(its, isDict) ==
    IF its = << >> THEN << >>
    ELSE LET h   == Head(its)
             one == (IF isDict THEN DumpStr(h.key) \o <<":">> ELSE << >>)
                    \o Dump(h.val)
         IN  IF Len(its) = 1 THEN one
             ELSE one \o <<",">> \o DumpItems(Tail(its), isDict)

Dump(v) ==
    CASE v.kind = "null" -> <<"null">>
      [] v.kind = "num"  -> NumText(v.num)
      [] v.kind = "str"  -> DumpStr(v.str)
      [] v.kind = "list" -> <<"[">> \o DumpItems(v.items, FALSE) \o <<"]">>
      [] OTHER           -> <<"{">> \o DumpItems(v.items, TRUE) \o <<"}">>

----------------------------------------------------------------------------
\* json.load: the token text of the file to a value, or a decode error.

ParseFail == [ok |-> FALSE, val |-> JNull, next |-> 0]

ParseOk(v, n) == [ok |-> TRUE, val |-> v, next |-> n]

Tok(t, i) == IF i >= 1 /\ i <= Len(t) THEN t[i] ELSE ""

RECURSIVE ParseDigits(_, _, _)
ParseDigits(t, i, acc) ==
    IF Tok(t, i) \in DigitSet
    THEN ParseDigits(t, i + 1, acc * 10 + DigitVal(Tok(t, i)))
    ELSE ParseOk(JNum(acc), i)

\* A string starts at the opening quote; its content is one token.
ParseString(t, i) ==
    IF Tok(t, i) # "\"" THEN ParseFail
    ELSE IF Tok(t, i + 1) = "\"" THEN ParseOk(JStr(""), i + 2)
    ELSE IF Tok(t, i + 1) \notin (Punct \cup {""}) /\ Tok(t, i + 2) = "\""
         THEN ParseOk(JStr(Tok(t, i + 1)), i + 3)
    ELSE ParseFail

\* A repeated key keeps its first position and takes the last value.
RECURSIVE DictPut(_, _, _)
DictPut(its, k, v) ==
    IF its = << >> THEN <<Item(k, v)>>
    ELSE IF Head(its).key = k THEN <<Item(k, v)>> \o Tail(its)
    ELSE <<Head(its)>> \o DictPut(Tail(its), k, v)

RECURSIVE ParseValue(_, _)
RECURSIVE ParseElems(_, _, _)
RECURSIVE ParseMembers(_, _, _)
ParseElems(t, i, acc) ==
    LET r == ParseValue(t, i)
    IN  IF ~r.ok THEN ParseFail
        ELSE LET acc2 == Append(acc, Item("", r.val))
             IN  IF Tok(t, r.next) = "," THEN ParseElems(t, r.next + 1, acc2)
                 ELSE IF Tok(t, r.next) = "]" THEN ParseOk(JList(acc2), r.next + 1)
                 ELSE ParseFail

ParseMembers(t, i, acc) ==
    LET k == ParseString(t, i)
    IN  IF ~k.ok \/ Tok(t, k.next) # ":" THEN ParseFail
        ELSE LET r == ParseValue(t, k.next + 1)
             IN  IF ~r.ok THEN ParseFail
                 ELSE LET acc2 == DictPut(acc, k.val.str, r.val)
                      IN  IF Tok(t, r.next) = "," THEN ParseMembers(t, r.next + 1, acc2)
                          ELSE IF Tok(t, r.next) = "}" THEN ParseOk(JDict(acc2), r.next + 1)
                          ELSE ParseFail

ParseValue(t, i) ==
    LET c == Tok(t, i)
    IN  CASE c = "null"     -> ParseOk(JNull, i + 1)
          [] c = "0"        -> ParseOk(JNum(0), i + 1)
          [] c \in DigitSet \ {"0"} -> ParseDigits(t, i, 0)
          [] c = "\""       -> ParseString(t, i)
          [] c = "["        -> IF Tok(t, i + 1) = "]" THEN ParseOk(JList(<< >>), i + 2)
                               ELSE ParseElems(t, i + 1, << >>)
          [] c = "{"        -> IF Tok(t, i + 1) = "}" THEN ParseOk(JDict(<< >>), i + 2)
                               ELSE ParseMembers(t, i + 1, << >>)
          [] OTHER          -> ParseFail

\* The whole text must be one value: trailing tokens are a decode error.
Load(t) ==
    LET r == ParseValue(t, 1)
    IN  IF r.ok /\ r.next = Len(t) + 1 THEN r ELSE ParseFail

----------------------------------------------------------------------------
\* The bounded universe of payloads, cache files, upstream states, validators.

NumVals == (0..MaxNum) \cup {42}

Nums == {JNum(n) : n \in NumVals}

\* Shapes of this repository's providers: a list of samples, and a "bpi"
\* mapping of date string to price; plus the empty and scalar values.
Payloads ==
    {JNull, JList(<< >>), JDict(<< >>)}
    \cup Nums
    \cup {JList(<<Item("", v)>>) : v \in Nums}
    \cup {JDict(<<Item("bpi", JDict(<<Item("2024-01-01", v)>>))>>) : v \in Nums}

\* Texts json.load rejects: an empty file, cut-off values, trailing tokens.
CorruptTexts ==
    { << >>,
      <<"[">>,
      <<"[", "1", ",">>,
      <<"{", "\"", "bpi", "\"", ":">>,
      <<"1", "]">>,
      <<"{", "'", "bpi", "'", ":", "1", "}">> }

NoFile == [exists |-> FALSE, text |-> << >>]

FileOf(t) == [exists |-> TRUE, text |-> t]

Files == {NoFile} \cup {FileOf(Dump(p)) : p \in Payloads} \cup {FileOf(t) : t \in CorruptTexts}

FetchFails == [ok |-> FALSE, val |-> JNull]

FetchYields(p) == [ok |-> TRUE, val |-> p]

Upstreams == {FetchFails} \cup {FetchYields(p) : p \in Payloads}

\* Validators, each given by the set of payloads it accepts.  get() asks the
\* validator about one payload per call and every call draws its validator
\* anew, so these give every sequence of verdicts: one that rejects all, one
\* that accepts all, one that accepts the non-empty values, and one that
\* accepts by shape (any list or mapping, empty or not).
Validators ==
    { {},
      Payloads,
      {p \in Payloads : Truthy(p)},
      {p \in Payloads : p.kind \in {"list", "dict"}} }

NoResult == [kind |-> "none", val |-> JNull, err |-> ""]

Return(v) == [kind |-> "return", val |-> v, err |-> ""]

Raise(e) == [kind |-> "raise", val |-> JNull, err |-> e]

NoPrev == [any |-> FALSE, miss |-> FALSE, nfetch |-> 0, wrote |-> FetchFails]

----------------------------------------------------------------------------
\* JSONDataCache.get(), one action per statement.

Ended == pc \in {"returned", "raised"}

\* No generator obtained yet, no price() call made yet.
NoGen == [start |-> 0, end |-> 0, current |-> 0, rpc |-> "idle", out |-> << >>]

GenIds == {1, 2}

NoPriceCall == [called |-> FALSE, arg |-> 0, val |-> [some |-> FALSE, val |-> 0]]

QueryIdle ==
    /\ gens = [g \in GenIds |-> NoGen]
    /\ price_ret = NoPriceCall

CleanIdle ==
    /\ raw = JList(<< >>)
    /\ idx = 0
    /\ cleaned = << >>
    /\ clean_pc = "idle"
    /\ taken = << >>

NoOutcome == [kind |-> "none", variant |-> "none", err |-> "", msg |-> << >>]

BuildIdle ==
    /\ source_name = << >>
    /\ constructor = "none"
    /\ today = 0
    /\ gs_pc = "idle"
    /\ gs_result = NoOutcome

ProcIds == {1, 2}

NoProc == [pc |-> "idle", data |-> JNull, result |-> NoResult]

ProcIdle ==
    /\ procs = [p \in ProcIds |-> NoProc]
    /\ lastw = 0

RestIdle == QueryIdle /\ CleanIdle /\ BuildIdle /\ ProcIdle

CacheInit ==
    /\ file \in Files
    /\ upstream = FetchFails
    /\ accepted = {}
    /\ pc = "idle"
    /\ data = JNull
    /\ result = NoResult
    /\ nfetch = 0
    /\ nwrite = 0
    /\ file0 = NoFile
    /\ prev = NoPrev
    /\ self_data = << >>
    /\ date_start = 0
    /\ date_end = 0
    /\ current = 0
    /\ rpc = "idle"
    /\ out = << >>
    /\ RestIdle

\* Whether a get() call beginning on file f is a miss the validator decides:
\* no file, or a file that parses and that validator set a rejects.
StartsMissing(f, a) ==
    \/ ~f.exists
    \/ Load(f.text).ok /\ Load(f.text).val \notin a

\* A caller enters get(): `data = None`.  The provider's state u and the
\* validator's verdicts a are those of the environment at the time of the call.
GetCall(u, a) ==
    /\ pc = "idle" \/ Ended
    /\ prev' = IF pc = "idle" THEN NoPrev
               ELSE [any    |-> TRUE,
                     miss   |-> StartsMissing(file0, accepted),
                     nfetch |-> nfetch,
                     wrote  |-> IF nwrite > 0 /\ pc = "returned"
                                THEN FetchYields(result.val) ELSE FetchFails]
    /\ upstream' = u
    /\ accepted' = a
    /\ data' = JNull
    /\ result' = NoResult
    /\ nfetch' = 0
    /\ nwrite' = 0
    /\ file0' = file
    /\ pc' = "l150"
    /\ UNCHANGED file
    /\ UNCHANGED rangeVars
    /\ UNCHANGED restVars

\* if os.path.isfile(self.cache_name):
IsFile ==
    /\ pc = "l150"
    /\ pc' = IF file.exists THEN "l151" ELSE "l158"
    /\ UNCHANGED <<file, upstream, accepted, data, result, nfetch, nwrite, file0, prev>>
    /\ UNCHANGED rangeVars
    /\ UNCHANGED restVars

\* with open(self.cache_name, 'r') as f: data = json.load(f)
\* A decode error is not caught anywhere in get(): it leaves get().
ReadLoad ==
    /\ pc = "l151"
    /\ LET r == Load(file.text)
       IN  IF r.ok
           THEN /\ data' = r.val
                /\ pc' = "l153"
                /\ UNCHANGED result
           ELSE /\ pc' = "raised"
                /\ result' = Raise("JSONDecodeError")
                /\ UNCHANGED data
    /\ UNCHANGED <<file, upstream, accepted, nfetch, nwrite, file0, prev>>
    /\ UNCHANGED rangeVars
    /\ UNCHANGED restVars

\* if data and self.validator(data): return data / else: data = None
Validate ==
    /\ pc = "l153"
    /\ IF Truthy(data) /\ data \in accepted
       THEN /\ result' = Return(data)
            /\ pc' = "returned"
            /\ UNCHANGED data
       ELSE /\ data' = JNull
            /\ pc' = "l158"
            /\ UNCHANGED result
    /\ UNCHANGED <<file, upstream, accepted, nfetch, nwrite, file0, prev>>
    /\ UNCHANGED rangeVars
    /\ UNCHANGED restVars

\* if not data:   (otherwise the function ends and returns None)
IfNotData ==
    /\ pc = "l158"
    /\ IF ~Truthy(data)
       THEN /\ pc' = "l159"
            /\ UNCHANGED result
       ELSE /\ pc' = "returned"
            /\ result' = Return(JNull)
    /\ UNCHANGED <<file, upstream, accepted, data, nfetch, nwrite, file0, prev>>
    /\ UNCHANGED rangeVars
    /\ UNCHANGED restVars

QueryFallsBackToStale ==
    /\ pc = "l159"
    /\ nfetch' = nfetch + 1
    /\ IF upstream.ok
       THEN /\ data' = upstream.val
            /\ pc' = "l160"
            /\ UNCHANGED result
       ELSE IF file.exists /\ Load(file.text).ok
       THEN /\ pc' = "returned"
            /\ result' = Return(Load(file.text).val)
            /\ UNCHANGED data
       ELSE /\ pc' = "raised"
            /\ result' = Raise("FetchFailure")
            /\ UNCHANGED data
    /\ UNCHANGED <<file, upstream, accepted, nwrite, file0, prev>>
    /\ UNCHANGED rangeVars
    /\ UNCHANGED restVars

QueryRetriesOnce ==
    /\ pc = "l159"
    /\ nfetch' = nfetch + 1
    /\ IF upstream.ok
       THEN /\ data' = upstream.val
            /\ pc' = "l160"
            /\ UNCHANGED result
       ELSE IF nfetch = 0
       THEN UNCHANGED <<pc, result, data>>
       ELSE /\ pc' = "raised"
            /\ result' = Raise("FetchFailure")
            /\ UNCHANGED data
    /\ UNCHANGED <<file, upstream, accepted, nwrite, file0, prev>>
    /\ UNCHANGED rangeVars
    /\ UNCHANGED restVars

QueryAfterOpening ==
    /\ pc = "l159"
    /\ nfetch' = nfetch + 1
    /\ IF upstream.ok
       THEN /\ data' = upstream.val
            /\ pc' = "l160"
            /\ UNCHANGED <<result, file>>
       ELSE /\ pc' = "raised"
            /\ result' = Raise("FetchFailure")
            /\ file' = FileOf(<< >>)
            /\ UNCHANGED data
    /\ UNCHANGED <<upstream, accepted, nwrite, file0, prev>>
    /\ UNCHANGED rangeVars
    /\ UNCHANGED restVars

\* data = self.queryer()   -- a failure of the queryer leaves get() uncaught.
Query ==
    /\ pc = "l159"
    /\ nfetch' = nfetch + 1
    /\ IF upstream.ok
       THEN /\ data' = upstream.val
            /\ pc' = "l160"
            /\ UNCHANGED result
       ELSE /\ pc' = "raised"
            /\ result' = Raise("FetchFailure")
            /\ UNCHANGED data
    /\ UNCHANGED <<file, upstream, accepted, nwrite, file0, prev>>
    /\ UNCHANGED rangeVars
    /\ UNCHANGED restVars

OpenForAppend ==
    /\ pc = "l160"
    /\ file' = FileOf(file.text)
    /\ nwrite' = nwrite + 1
    /\ pc' = "l161"
    /\ UNCHANGED <<upstream, accepted, data, result, nfetch, file0, prev>>
    /\ UNCHANGED rangeVars
    /\ UNCHANGED restVars

\* with open(self.cache_name, 'w') as f:   -- creates or truncates the file.
OpenForWrite ==
    /\ pc = "l160"
    /\ file' = FileOf(<< >>)
    /\ nwrite' = nwrite + 1
    /\ pc' = "l161"
    /\ UNCHANGED <<upstream, accepted, data, result, nfetch, file0, prev>>
    /\ UNCHANGED rangeVars
    /\ UNCHANGED restVars

\* json.dump(data, f)   -- written at the position open() left.
DumpWrite ==
    /\ pc = "l161"
    /\ file' = FileOf(file.text \o Dump(data))
    /\ pc' = "l162"
    /\ UNCHANGED <<upstream, accepted, data, result, nfetch, nwrite, file0, prev>>
    /\ UNCHANGED rangeVars
    /\ UNCHANGED restVars

\* return data
ReturnFetched ==
    /\ pc = "l162"
    /\ result' = Return(data)
    /\ pc' = "returned"
    /\ UNCHANGED <<file, upstream, accepted, data, nfetch, nwrite, file0, prev>>
    /\ UNCHANGED rangeVars
    /\ UNCHANGED restVars

CacheNext ==
    \/ \E u \in Upstreams, a \in Validators : GetCall(u, a)
    \/ IsFile
    \/ ReadLoad
    \/ Validate
    \/ IfNotData
    \/ Query
    \/ OpenForWrite
    \/ DumpWrite
    \/ ReturnFetched

SpecCache == CacheInit /\ [][CacheNext]_vars

----------------------------------------------------------------------------
\* Source.price and Source.range.  The generator body is cut at each loop
\* test and at the yield; a consumer drives it to the end.

\* _ONE_DAY = timedelta(days=1)
ONE_DAY == TicksPerDay

\* datetime(d.year, d.month, d.day): the calendar day of a datetime.
Day(d) == d \div TicksPerDay

Days == 0..MaxDay

DateTimes == 0..(MaxDay * TicksPerDay + TicksPerDay - 1)

\* Prices after round(Decimal, 2); 0 is a price (Decimal('0.00')), not None.
Prices == {0, 1}

None == [some |-> FALSE, val |-> 0]

Some(v) == [some |-> TRUE, val |-> v]

\* Every mapping a constructed source can hold over the days of the model.
Mappings == UNION {[K -> Prices] : K \in SUBSET Days}

PriceExactKey(d) ==
    IF d % TicksPerDay = 0 /\ Day(d) \in DOMAIN self_data
    THEN Some(self_data[Day(d)]) ELSE None

\* self._data.get(datetime(d.year, d.month, d.day))
Price(d) ==
    IF Day(d) \in DOMAIN self_data THEN Some(self_data[Day(d)]) ELSE None

NotAfterByDay(a, b) == Day(a) <= Day(b)

\* current <= date_end
NotAfter(a, b) == a <= b

RangeInit ==
    /\ self_data \in Mappings
    /\ date_start = 0
    /\ date_end = 0
    /\ current = 0
    /\ rpc = "idle"
    /\ out = << >>
    /\ file = NoFile
    /\ upstream = FetchFails
    /\ accepted = {}
    /\ pc = "idle"
    /\ data = JNull
    /\ result = NoResult
    /\ nfetch = 0
    /\ nwrite = 0
    /\ file0 = NoFile
    /\ prev = NoPrev
    /\ RestIdle

\* source.range(s, e), up to the first loop test: current = date_start
RangeCall(s, e) ==
    /\ rpc \in {"idle", "done"}
    /\ date_start' = s
    /\ date_end' = e
    /\ current' = s
    /\ out' = << >>
    /\ rpc' = "l44"
    /\ UNCHANGED self_data
    /\ UNCHANGED cacheVars
    /\ UNCHANGED restVars

\* while current <= date_end:   (false: the generator returns, line 51)
OuterTest ==
    /\ rpc = "l44"
    /\ rpc' = IF NotAfter(current, date_end) THEN "l45" ELSE "done"
    /\ UNCHANGED <<self_data, date_start, date_end, current, out>>
    /\ UNCHANGED cacheVars
    /\ UNCHANGED restVars

InnerTestNoAdvance ==
    /\ rpc = "l45"
    /\ IF Price(current) = None /\ NotAfter(current, date_end)
       THEN UNCHANGED <<current, rpc>>
       ELSE /\ rpc' = "l47"
            /\ UNCHANGED current
    /\ UNCHANGED <<self_data, date_start, date_end, out>>
    /\ UNCHANGED cacheVars
    /\ UNCHANGED restVars

InnerTestFalsy ==
    /\ rpc = "l45"
    /\ IF (Price(current) = None \/ Price(current) = Some(0)) /\ NotAfter(current, date_end)
       THEN /\ current' = current + ONE_DAY
            /\ UNCHANGED rpc
       ELSE /\ rpc' = "l47"
            /\ UNCHANGED current
    /\ UNCHANGED <<self_data, date_start, date_end, out>>
    /\ UNCHANGED cacheVars
    /\ UNCHANGED restVars

\* while self.price(current) is None and current <= date_end: current += _ONE_DAY
InnerTest ==
    /\ rpc = "l45"
    /\ IF Price(current) = None /\ NotAfter(current, date_end)
       THEN /\ current' = current + ONE_DAY
            /\ UNCHANGED rpc
       ELSE /\ rpc' = "l47"
            /\ UNCHANGED current
    /\ UNCHANGED <<self_data, date_start, date_end, out>>
    /\ UNCHANGED cacheVars
    /\ UNCHANGED restVars

\* if current <= date_end: yield (current, self.price(current))
IfYield ==
    /\ rpc = "l47"
    /\ IF NotAfter(current, date_end)
       THEN /\ out' = Append(out, [date |-> current, price |-> Price(current)])
            /\ rpc' = "l48"
       ELSE /\ rpc' = "l44"
            /\ UNCHANGED out
    /\ UNCHANGED <<self_data, date_start, date_end, current>>
    /\ UNCHANGED cacheVars
    /\ UNCHANGED restVars

\* the consumer asks for the next pair: current += _ONE_DAY, back to the test
Resume ==
    /\ rpc = "l48"
    /\ current' = current + ONE_DAY
    /\ rpc' = "l44"
    /\ UNCHANGED <<self_data, date_start, date_end, out>>
    /\ UNCHANGED cacheVars
    /\ UNCHANGED restVars

GenStep ==
    \/ OuterTest
    \/ InnerTest
    \/ IfYield
    \/ Resume

RangeNext ==
    \/ \E s \in DateTimes, e \in DateTimes : RangeCall(s, e)
    \/ OuterTest
    \/ InnerTest
    \/ IfYield
    \/ Resume

SpecRange == RangeInit /\ [][RangeNext]_vars

\* A generator that is consumed to the end: its steps are taken while enabled.
LiveRange == RangeInit /\ [][RangeNext]_vars /\ WF_vars(GenStep)

----------------------------------------------------------------------------
\* A constructed source queried through price() and through any number of
\* range() generators, each generator with its own frame of locals.

othersOfQuery ==
    <<cacheVars, date_start, date_end, current, rpc, out, cleanVars, buildVars,
      procVars>>

\* The calendar dates (midnights) of the model.
CalendarDates == {d * TicksPerDay : d \in Days}

SourceInit ==
    /\ self_data \in Mappings
    /\ date_start = 0
    /\ date_end = 0
    /\ current = 0
    /\ rpc = "idle"
    /\ out = << >>
    /\ file = NoFile
    /\ upstream = FetchFails
    /\ accepted = {}
    /\ pc = "idle"
    /\ data = JNull
    /\ result = NoResult
    /\ nfetch = 0
    /\ nwrite = 0
    /\ file0 = NoFile
    /\ prev = NoPrev
    /\ RestIdle

PriceCallPops(d) ==
    /\ price_ret' = [called |-> TRUE, arg |-> d, val |-> Price(d)]
    /\ self_data' = [k \in (DOMAIN self_data) \ {Day(d)} |-> self_data[k]]
    /\ UNCHANGED gens
    /\ UNCHANGED othersOfQuery

\* source.price(d)
PriceCall(d) ==
    /\ price_ret' = [called |-> TRUE, arg |-> d, val |-> Price(d)]
    /\ UNCHANGED <<gens, self_data>>
    /\ UNCHANGED othersOfQuery

\* g = source.range(s, e): a fresh frame; the generator held in slot g before
\* (unstarted, suspended at a yield, or exhausted) is dropped.
GenCall(g, s, e) ==
    /\ gens[g].rpc \in {"idle", "l48", "done"}
    /\ gens' = [gens EXCEPT ![g] =
                  [start |-> s, end |-> e, current |-> s, rpc |-> "l44", out |-> << >>]]
    /\ UNCHANGED <<price_ret, self_data>>
    /\ UNCHANGED othersOfQuery

\* while current <= date_end:
GenOuter(g) ==
    /\ gens[g].rpc = "l44"
    /\ gens' = [gens EXCEPT ![g].rpc =
                  IF NotAfter(gens[g].current, gens[g].end) THEN "l45" ELSE "done"]
    /\ UNCHANGED <<price_ret, self_data>>
    /\ UNCHANGED othersOfQuery

\* while self.price(current) is None and current <= date_end: current += _ONE_DAY
GenInner(g) ==
    /\ gens[g].rpc = "l45"
    /\ gens' = IF Price(gens[g].current) = None /\ NotAfter(gens[g].current, gens[g].end)
               THEN [gens EXCEPT ![g].current = @ + ONE_DAY]
               ELSE [gens EXCEPT ![g].rpc = "l47"]
    /\ UNCHANGED <<price_ret, self_data>>
    /\ UNCHANGED othersOfQuery

\* if current <= date_end: yield (current, self.price(current))
GenYield(g) ==
    /\ gens[g].rpc = "l47"
    /\ gens' = IF NotAfter(gens[g].current, gens[g].end)
               THEN [gens EXCEPT ![g].out = Append(@, [date  |-> gens[g].current,
                                                      price |-> Price(gens[g].current)]),
                                 ![g].rpc = "l48"]
               ELSE [gens EXCEPT ![g].rpc = "l44"]
    /\ UNCHANGED <<price_ret, self_data>>
    /\ UNCHANGED othersOfQuery

GenResumeSharedCursor(g) ==
    /\ gens[g].rpc = "l48"
    /\ gens' = [h \in GenIds |->
                  [gens[h] EXCEPT !.current = @ + ONE_DAY,
                                  !.rpc = IF h = g THEN "l44" ELSE @]]
    /\ UNCHANGED <<price_ret, self_data>>
    /\ UNCHANGED othersOfQuery

\* next(g) after a yield: current += _ONE_DAY
GenResume(g) ==
    /\ gens[g].rpc = "l48"
    /\ gens' = [gens EXCEPT ![g].current = @ + ONE_DAY, ![g].rpc = "l44"]
    /\ UNCHANGED <<price_ret, self_data>>
    /\ UNCHANGED othersOfQuery

\* One caller: price() calls and one generator slot, re-obtained at will.
SourceNext ==
    \/ \E d \in DateTimes : PriceCall(d)
    \/ \E s \in CalendarDates, e \in CalendarDates : GenCall(1, s, e)
    \/ GenOuter(1)
    \/ GenInner(1)
    \/ GenYield(1)
    \/ GenResume(1)

SpecSource == SourceInit /\ [][SourceNext]_vars

\* Several generators over the same source, advanced in any interleaving.
GensNext ==
    \/ \E g \in GenIds, s \in CalendarDates, e \in CalendarDates : GenCall(g, s, e)
    \/ \E g \in GenIds : GenOuter(g)
    \/ \E g \in GenIds : GenInner(g)
    \/ \E g \in GenIds : GenYield(g)
    \/ \E g \in GenIds : GenResume(g)

SpecGens == SourceInit /\ [][GensNext]_vars

----------------------------------------------------------------------------
\* Date strings and the providers' payload shapes.

\* "%Y-%m-%d" strings of the days 0, 1, 2, ... of the model.
DateStrs == <<"2024-01-01", "2024-01-02", "2024-01-03",
              "2024-01-04", "2024-01-05", "2024-01-06">>

\* datetime.strftime(d, "%Y-%m-%d")
DateStr(d) == DateStrs[d + 1]

IsDateStr(s) == \E i \in 1..Len(DateStrs) : DateStrs[i] = s

\* datetime.strptime(s, "%Y-%m-%d"), as a day number; a ValueError otherwise.
StrpDate(s) == (CHOOSE i \in 1..Len(DateStrs) : DateStrs[i] = s) - 1

ClockStrs == <<"00:00:00Z", "12:00:00Z">>

TimeStr(d, c) == DateStr(d) \o "T" \o ClockStrs[c]

\* ts_str.split("T")[0]
SplitT(ts) ==
    IF \E d \in 0..(Len(DateStrs) - 1), c \in 1..Len(ClockStrs) : ts = TimeStr(d, c)
    THEN DateStr(CHOOSE d \in 0..(Len(DateStrs) - 1) :
                    \E c \in 1..Len(ClockStrs) : ts = TimeStr(d, c))
    ELSE ts

HasKey(v, k) == v.kind = "dict" /\ \E i \in 1..Len(v.items) : v.items[i].key = k

\* v[k] of a mapping that has the key
Field(v, k) == v.items[CHOOSE i \in 1..Len(v.items) : v.items[i].key = k].val

\* One sample of etherchain's data list.
Sample(d, c, usd) ==
    JDict(<<Item("time", JStr(TimeStr(d, c))), Item("usd", JNum(usd))>>)

TimeStrs ==
    {TimeStr(d, c) : d \in 0..(Len(DateStrs) - 1), c \in 1..Len(ClockStrs)}

\* get_date(ts_str), tabulated over the timestamps of the model
GetDate == [ts \in TimeStrs |-> StrpDate(SplitT(ts))]

\* get_date(datum['time'])
SampleDay(smp) == GetDate[Field(smp, "time").str]

\* round(total / n, 2) in cents: to nearest, a tie to the even cent.
RoundCents(total, n) ==
    LET q == (100 * total) \div n
        r == (100 * total) % n
    IN  IF 2 * r > n THEN q + 1
        ELSE IF 2 * r = n THEN q + (q % 2)
        ELSE q

----------------------------------------------------------------------------
\* ETHPrice.__clean_raw_data, one action per pass of its while loop.

RECURSIVE RunLen(_, _, _)
\* len(takewhile(same day, data[i-1:])), i counting from 1
RunLen(its, i, day) ==
    IF i <= Len(its) /\ SampleDay(its[i].val) = day
    THEN 1 + RunLen(its, i + 1, day)
    ELSE 0

RECURSIVE SumUsd(_, _, _)
\* sum of the usd of the n samples from position i on
SumUsd(its, i, n) ==
    IF n = 0 THEN 0 ELSE Field(its[i].val, "usd").num + SumUsd(its, i + 1, n - 1)

\* cleaned[day] = v
DictSet(f, k, v) == [x \in (DOMAIN f) \cup {k} |-> IF x = k THEN v ELSE f[x]]

CleanPassByOne(its, i, f) ==
    LET day == SampleDay(its[i + 1].val)
        n   == RunLen(its, i + 1, day)
    IN  [idx |-> i + 1, n |-> n,
         cleaned |-> DictSet(f, day, RoundCents(SumUsd(its, i + 1, n), n))]

\* One pass of the loop body (lines 77-83) from idx = i with cleaned = f.
CleanPass(its, i, f) ==
    LET day == SampleDay(its[i + 1].val)
        n   == RunLen(its, i + 1, day)
    IN  [idx |-> i + n, n |-> n,
         cleaned |-> DictSet(f, day, RoundCents(SumUsd(its, i + 1, n), n))]

RECURSIVE CleanFrom(_, _, _)
\* The loop run to its end.
CleanFrom(its, i, f) ==
    IF i < Len(its)
    THEN LET p == CleanPass(its, i, f) IN CleanFrom(its, p.idx, p.cleaned)
    ELSE f

\* self.__clean_raw_data(data) of ETHPrice, for a list of samples
CleanETH(v) == CleanFrom(v.items, 0, << >>)

UsdVals == {100, 102, 200}

\* Sampling instants (day, clock) and the readings taken at them.
Readings == [d : Days, c : 1..Len(ClockStrs), u : UsdVals]

Before(r, q) == r.d < q.d \/ (r.d = q.d /\ r.c <= q.c)

\* The provider's lists of n samples: readings in time order.
TimeOrdered(n) ==
    {t \in [1..n -> Readings] : \A i \in 1..(n - 1) : Before(t[i], t[i + 1])}

SamplesOf(t) == [i \in 1..Len(t) |-> Sample(t[i].d, t[i].c, t[i].u)]

AsList(l) == JList([i \in 1..Len(l) |-> Item("", l[i])])

othersOfClean == <<cacheVars, rangeVars, queryVars, buildVars, procVars>>

CleanInit ==
    /\ self_data = << >>
    /\ date_start = 0
    /\ date_end = 0
    /\ current = 0
    /\ rpc = "idle"
    /\ out = << >>
    /\ file = NoFile
    /\ upstream = FetchFails
    /\ accepted = {}
    /\ pc = "idle"
    /\ data = JNull
    /\ result = NoResult
    /\ nfetch = 0
    /\ nwrite = 0
    /\ file0 = NoFile
    /\ prev = NoPrev
    /\ RestIdle

\* self.__clean_raw_data(data) is entered with the list l
CleanCall(l) ==
    /\ clean_pc = "idle"
    /\ raw' = AsList(l)
    /\ clean_pc' = "l73"
    /\ UNCHANGED <<idx, cleaned, taken>>
    /\ UNCHANGED othersOfClean

\* cleaned = {}; idx = 0
CleanBegin ==
    /\ clean_pc = "l73"
    /\ cleaned' = << >>
    /\ idx' = 0
    /\ taken' = [i \in 1..Len(raw.items) |-> 0]
    /\ clean_pc' = "l75"
    /\ UNCHANGED raw
    /\ UNCHANGED othersOfClean

\* while idx < len(data): ... idx += len(for_day)
CleanLoop ==
    /\ clean_pc = "l75"
    /\ idx < Len(raw.items)
    /\ \E p \in {CleanPass(raw.items, idx, cleaned)} :
           /\ idx' = p.idx
           /\ cleaned' = p.cleaned
           /\ taken' = [i \in 1..Len(raw.items) |->
                          IF idx < i /\ i <= idx + p.n THEN taken[i] + 1 ELSE taken[i]]
    /\ UNCHANGED <<raw, clean_pc>>
    /\ UNCHANGED othersOfClean

\* return cleaned
CleanReturn ==
    /\ clean_pc = "l75"
    /\ ~(idx < Len(raw.items))
    /\ clean_pc' = "done"
    /\ UNCHANGED <<raw, idx, cleaned, taken>>
    /\ UNCHANGED othersOfClean

CleanRun ==
    \/ CleanBegin
    \/ CleanLoop
    \/ CleanReturn

CleanNext ==
    \/ /\ clean_pc = "idle"
       /\ \E n \in 0..MaxSamples : \E t \in TimeOrdered(n) : CleanCall(SamplesOf(t))
    \/ CleanRun

SpecClean == CleanInit /\ [][CleanNext]_vars

\* A call once entered runs to its end: nothing suspends __clean_raw_data.
LiveClean == CleanInit /\ [][CleanNext]_vars /\ WF_vars(CleanRun)

----------------------------------------------------------------------------
\* The two variants' normalizers and validators.

\* The exception __clean_raw_data of BTCPrice raises on v, "" if none.
BtcError(v) ==
    IF v.kind # "dict" THEN "TypeError"
    ELSE IF ~HasKey(v, "bpi") THEN "KeyError"
    ELSE LET b == Field(v, "bpi")
         IN  IF b.kind # "dict" THEN "AttributeError"
             ELSE IF \E i \in 1..Len(b.items) : ~IsDateStr(b.items[i].key)
             THEN "ValueError"
             ELSE IF \E i \in 1..Len(b.items) : b.items[i].val.kind # "num"
             THEN "InvalidOperation"
             ELSE ""

\* {strptime(date_str): round(Decimal(str(price)), 2) for ... in data['bpi'].items()}
CleanBTC(v) ==
    LET b == Field(v, "bpi").items
    IN  [d \in {StrpDate(b[i].key) : i \in 1..Len(b)} |->
            100 * b[CHOOSE i \in 1..Len(b) : StrpDate(b[i].key) = d].val.num]

\* The exception get_date, datum['time'] or d['usd'] raises on one element.
SampleError(e) ==
    IF e.kind # "dict" THEN "TypeError"
    ELSE IF ~HasKey(e, "time") THEN "KeyError"
    ELSE IF Field(e, "time").kind # "str" THEN "AttributeError"
    ELSE IF Field(e, "time").str \notin TimeStrs THEN "ValueError"
    ELSE IF ~HasKey(e, "usd") THEN "KeyError"
    ELSE IF Field(e, "usd").kind # "num" THEN "InvalidOperation"
    ELSE ""

\* The exception __clean_raw_data of ETHPrice raises on v, "" if none.
EthError(v) ==
    IF v.kind \in {"null", "num", "str"} THEN "TypeError"
    ELSE IF v.kind = "dict" THEN (IF v.items = << >> THEN "" ELSE "KeyError")
    ELSE LET bad == {i \in 1..Len(v.items) : SampleError(v.items[i].val) # ""}
         IN  IF bad = {} THEN ""
             ELSE SampleError(v.items[CHOOSE i \in bad : \A j \in bad : i <= j].val)

CleanError(c, v) ==
    IF c = "btc" THEN BtcError(v) ELSE IF c = "eth" THEN EthError(v) ELSE ""

Clean(c, v) == IF c = "btc" THEN CleanBTC(v) ELSE CleanETH(v)

BtcValidatorToday(t, v) == t \in DOMAIN CleanBTC(v)

\* BTCPrice.__validate_raw_data at a time whose calendar day is t
BtcValidator(t, v) == (t - ONE_DAY \div TicksPerDay) \in DOMAIN CleanBTC(v)

\* ETHPrice.__validate_raw_data at a time whose calendar day is t
EthValidator(t, v) == t \in DOMAIN CleanETH(v)

RECURSIVE Ascending(_)
\* the days of K, earliest first
Ascending(K) ==
    IF K = {} THEN << >>
    ELSE LET m == CHOOSE d \in K : \A e \in K : d <= e
         IN  <<m>> \o Ascending(K \ {m})

\* coindesk's answer with a close for each day of K
BpiOf(K) ==
    LET ds == Ascending(K)
    IN  JDict(<<Item("bpi", JDict([i \in 1..Len(ds) |-> Item(DateStr(ds[i]), JNum(42))]))>>)

\* etherchain's ['data'] with one sample on each day of K
EthOf(K) ==
    LET ds == Ascending(K)
    IN  AsList([i \in 1..Len(ds) |-> Sample(ds[i], 1, 100)])

ProviderPayloads(c) ==
    IF c = "btc" THEN {BpiOf(K) : K \in SUBSET Days}
    ELSE IF c = "eth" THEN {EthOf(K) : K \in SUBSET Days}
    ELSE {}

ProviderStates(c) == {FetchFails} \cup {FetchYields(p) : p \in ProviderPayloads(c)}

\* What a cache file may hold when a source is constructed.
BuildPayloads == Payloads \cup ProviderPayloads("btc") \cup ProviderPayloads("eth")

BuildFiles == {NoFile} \cup {FileOf(Dump(p)) : p \in BuildPayloads}

\* The payloads on which the validator of variant c returns true on day t.
Accepted(c, t) ==
    {p \in BuildPayloads :
        /\ CleanError(c, p) = ""
        /\ IF c = "btc" THEN BtcValidator(t, p) ELSE EthValidator(t, p)}

----------------------------------------------------------------------------
\* get_source and the constructors of BTCPrice and ETHPrice.

Uppers == <<"B", "T", "C", "E", "H", "X", "R", "P">>

Lowers == <<"b", "t", "c", "e", "h", "x", "r", "p">>

LowerChar(ch) ==
    IF \E i \in 1..Len(Uppers) : Uppers[i] = ch
    THEN Lowers[CHOOSE i \in 1..Len(Uppers) : Uppers[i] = ch]
    ELSE ch

\* str.lower()
Lower(nm) == [i \in 1..Len(nm) |-> LowerChar(nm[i])]

Names ==
    { <<"b", "t", "c">>, <<"B", "T", "C">>, <<"B", "t", "c">>,
      <<"e", "t", "h">>, <<"E", "T", "H">>, <<"e", "T", "h">>,
      <<"x", "r", "p">>, <<"b", "t">>, << >> }

\* the registry dict's .get(key)
Registry(key) ==
    IF key = <<"b", "t", "c">> THEN "btc"
    ELSE IF key = <<"e", "t", "h">> THEN "eth"
    ELSE "none"

RegistryKeyExact(nm) == nm

\* source_name.lower()
RegistryKey(nm) == Lower(nm)

\* Exception("No market is present for " + source_name)
NoMarket(nm) ==
    [kind |-> "raise", variant |-> "none", err |-> "Exception",
     msg |-> <<"No market is present for ">> \o nm]

\* an exception of the constructor, passed on unchanged
Uncaught(e) == [kind |-> "raise", variant |-> "none", err |-> e, msg |-> << >>]

Constructed(c) == [kind |-> "source", variant |-> c, err |-> "", msg |-> << >>]

BuildEnded == gs_pc \in {"returned", "raised"}

othersOfBuild == <<rangeVars, queryVars, cleanVars, procVars>>

BuildInit ==
    /\ file \in BuildFiles
    /\ upstream = FetchFails
    /\ accepted = {}
    /\ pc = "idle"
    /\ data = JNull
    /\ result = NoResult
    /\ nfetch = 0
    /\ nwrite = 0
    /\ file0 = NoFile
    /\ prev = NoPrev
    /\ self_data = << >>
    /\ date_start = 0
    /\ date_end = 0
    /\ current = 0
    /\ rpc = "idle"
    /\ out = << >>
    /\ RestIdle

\* get_source(nm), called on calendar day t: the registry lookup.
GetSource(nm, t) ==
    /\ gs_pc = "idle"
    /\ source_name' = nm
    /\ today' = t
    /\ constructor' = Registry(RegistryKey(nm))
    /\ IF Registry(RegistryKey(nm)) # "none"
       THEN /\ gs_pc' = "l56"
            /\ UNCHANGED gs_result
       ELSE /\ gs_pc' = "raised"
            /\ gs_result' = NoMarket(nm)
    /\ UNCHANGED cacheVars
    /\ UNCHANGED othersOfBuild

\* The constructor builds its JSONDataCache and enters cache.get().
CacheGet ==
    /\ gs_pc = "l56"
    /\ pc = "idle"
    /\ \E u \in ProviderStates(constructor) : GetCall(u, Accepted(constructor, today))

\* self.validator(data) returns.
ValidateReturns ==
    /\ ~(Truthy(data) /\ CleanError(constructor, data) # "")
    /\ Validate

\* self.validator(data) raises inside __clean_raw_data; get() catches nothing.
ValidateRaises ==
    /\ pc = "l153"
    /\ Truthy(data)
    /\ CleanError(constructor, data) # ""
    /\ pc' = "raised"
    /\ result' = Raise(CleanError(constructor, data))
    /\ UNCHANGED <<file, upstream, accepted, data, nfetch, nwrite, file0, prev>>
    /\ UNCHANGED rangeVars
    /\ UNCHANGED restVars

\* self._data = self.__clean_raw_data(cache.get()), and the source is returned.
CleanData ==
    /\ gs_pc = "l56"
    /\ pc = "returned"
    /\ IF CleanError(constructor, result.val) = ""
       THEN /\ self_data' = Clean(constructor, result.val)
            /\ gs_pc' = "returned"
            /\ gs_result' = Constructed(constructor)
       ELSE /\ gs_pc' = "raised"
            /\ gs_result' = Uncaught(CleanError(constructor, result.val))
            /\ UNCHANGED self_data
    /\ UNCHANGED <<source_name, constructor, today>>
    /\ UNCHANGED <<date_start, date_end, current, rpc, out>>
    /\ UNCHANGED <<cacheVars, queryVars, cleanVars, procVars>>

\* An exception of cache.get() leaves the constructor and get_source.
Propagate ==
    /\ gs_pc = "l56"
    /\ pc = "raised"
    /\ gs_pc' = "raised"
    /\ gs_result' = Uncaught(result.err)
    /\ UNCHANGED <<source_name, constructor, today>>
    /\ UNCHANGED cacheVars
    /\ UNCHANGED othersOfBuild

BuildNext ==
    \/ \E nm \in Names, t \in Days : GetSource(nm, t)
    \/ CacheGet
    \/ IsFile
    \/ ReadLoad
    \/ ValidateReturns
    \/ ValidateRaises
    \/ IfNotData
    \/ Query
    \/ OpenForWrite
    \/ DumpWrite
    \/ ReturnFetched
    \/ CleanData
    \/ Propagate

SpecBuild == BuildInit /\ [][BuildNext]_vars

----------------------------------------------------------------------------
\* Two processes, each in JSONDataCache.get() on the same cache name.  They
\* share the file and nothing else; a step of get() is a step of one process.

\* What the provider may answer to either process.
RacePayloads == {JNum(1), JList(<<Item("", JNum(1))>>), BpiOf({0})}

othersOfProc ==
    <<upstream, accepted, pc, data, result, nfetch, nwrite, file0, prev,
      rangeVars, queryVars, cleanVars, buildVars>>

ProcInit ==
    /\ file \in {NoFile} \cup {FileOf(Dump(v)) : v \in RacePayloads}
    /\ accepted \in Validators
    /\ upstream = FetchFails
    /\ pc = "idle"
    /\ data = JNull
    /\ result = NoResult
    /\ nfetch = 0
    /\ nwrite = 0
    /\ file0 = NoFile
    /\ prev = NoPrev
    /\ self_data = << >>
    /\ date_start = 0
    /\ date_end = 0
    /\ current = 0
    /\ rpc = "idle"
    /\ out = << >>
    /\ RestIdle

\* the process p moves to position l with its local data set to d
ProcAt(p, l, d) == [procs EXCEPT ![p].pc = l, ![p].data = d]

\* data = None
ProcCall(p) ==
    /\ procs[p].pc = "idle"
    /\ procs' = ProcAt(p, "l150", JNull)
    /\ UNCHANGED <<file, lastw>>
    /\ UNCHANGED othersOfProc

\* if os.path.isfile(self.cache_name):
ProcIsFile(p) ==
    /\ procs[p].pc = "l150"
    /\ procs' = ProcAt(p, IF file.exists THEN "l151" ELSE "l158", procs[p].data)
    /\ UNCHANGED <<file, lastw>>
    /\ UNCHANGED othersOfProc

\* with open(self.cache_name, 'r') as f: data = json.load(f)
ProcReadLoad(p) ==
    /\ procs[p].pc = "l151"
    /\ LET r == Load(file.text)
       IN  procs' = IF r.ok
                    THEN ProcAt(p, "l153", r.val)
                    ELSE [procs EXCEPT ![p].pc = "raised",
                                       ![p].result = Raise("JSONDecodeError")]
    /\ UNCHANGED <<file, lastw>>
    /\ UNCHANGED othersOfProc

\* if data and self.validator(data): return data / else: data = None
ProcValidate(p) ==
    /\ procs[p].pc = "l153"
    /\ procs' = IF Truthy(procs[p].data) /\ procs[p].data \in accepted
                THEN [procs EXCEPT ![p].pc = "returned",
                                   ![p].result = Return(procs[p].data)]
                ELSE ProcAt(p, "l158", JNull)
    /\ UNCHANGED <<file, lastw>>
    /\ UNCHANGED othersOfProc

\* if not data: data = self.queryer()   -- the provider answers v
ProcQuery(p, v) ==
    /\ procs[p].pc = "l158"
    /\ ~Truthy(procs[p].data)
    /\ procs' = ProcAt(p, "l160", v)
    /\ UNCHANGED <<file, lastw>>
    /\ UNCHANGED othersOfProc

\* with open(self.cache_name, 'w') as f:   -- creates or truncates the file
ProcOpenForWrite(p) ==
    /\ procs[p].pc = "l160"
    /\ file' = FileOf(<< >>)
    /\ procs' = ProcAt(p, "l161", procs[p].data)
    /\ UNCHANGED lastw
    /\ UNCHANGED othersOfProc

\* json.dump(data, f)   -- written at the position open() left, which is 0:
\* what the file holds beyond the written text stays.
ProcDumpWrite(p) ==
    /\ procs[p].pc = "l161"
    /\ LET t == Dump(procs[p].data)
       IN  file' = FileOf(t \o SubSeq(file.text, Len(t) + 1, Len(file.text)))
    /\ lastw' = p
    /\ procs' = ProcAt(p, "l162", procs[p].data)
    /\ UNCHANGED othersOfProc

\* return data
ProcReturn(p) ==
    /\ procs[p].pc = "l162"
    /\ procs' = [procs EXCEPT ![p].pc = "returned",
                              ![p].result = Return(procs[p].data)]
    /\ UNCHANGED <<file, lastw>>
    /\ UNCHANGED othersOfProc

ProcNext ==
    \E p \in ProcIds :
        \/ ProcCall(p)
        \/ ProcIsFile(p)
        \/ ProcReadLoad(p)
        \/ ProcValidate(p)
        \/ \E v \in RacePayloads : ProcQuery(p, v)
        \/ ProcOpenForWrite(p)
        \/ ProcDumpWrite(p)
        \/ ProcReturn(p)

SpecProcs == ProcInit /\ [][ProcNext]_vars

----------------------------------------------------------------------------
\* Properties of JSONDataCache.get(), read at the end of a call.

\* The payload of the file the current call began on (when it parses).
Cached0 == Load(file0.text).val

Parses0 == file0.exists /\ Load(file0.text).ok

\* C1: a call that begins on a file which parses and whose payload the
\* validator accepts returns that payload, makes no fetch and writes nothing.
C1_CacheHit ==
    (Ended /\ Parses0 /\ Cached0 \in accepted)
        => /\ result = Return(Cached0)
           /\ nfetch = 0
           /\ nwrite = 0

\* C2: a call that begins with no file, or on a file whose payload the
\* validator rejects, calls the queryer once; the payload it yields is then all
\* the file holds and is what get() returns.
C2_CacheMiss ==
    (Ended /\ StartsMissing(file0, accepted))
        => /\ nfetch = 1
           /\ upstream.ok =>
                /\ nwrite = 1
                /\ file = FileOf(Dump(upstream.val))
                /\ Load(file.text) = ParseOk(upstream.val, Len(file.text) + 1)
                /\ result = Return(upstream.val)

C2_Witness ==
    /\ pc = "returned"
    /\ Parses0 /\ Truthy(Cached0) /\ Cached0 \notin accepted
    /\ upstream.ok /\ Truthy(upstream.val) /\ upstream.val # Cached0
    /\ Len(file0.text) > Len(file.text)
    /\ result = Return(upstream.val)

\* C3: a call that begins on a file that does not parse raises no decode
\* error, calls the queryer, and stores and returns what the queryer yields.
C3_CorruptIsMiss ==
    (Ended /\ file0.exists /\ ~Load(file0.text).ok)
        => /\ result # Raise("JSONDecodeError")
           /\ nfetch = 1
           /\ upstream.ok =>
                /\ file = FileOf(Dump(upstream.val))
                /\ result = Return(upstream.val)

\* C4: when the queryer is called and fails, get() ends by raising that
\* failure, having called the queryer once, and returns nothing (in particular
\* not the payload the validator rejected).
C4_FetchFailure ==
    (Ended /\ ~upstream.ok /\ (nfetch > 0 \/ StartsMissing(file0, accepted)))
        => /\ result = Raise("FetchFailure")
           /\ nfetch = 1

C4_Witness ==
    /\ pc = "raised"
    /\ Parses0 /\ Truthy(Cached0) /\ Cached0 \notin accepted
    /\ ~upstream.ok
    /\ result = Raise("FetchFailure")

\* C5: at every point of a get() call, on every path, at most one open of the
\* cache file for writing and at most one call of the queryer have been made.
C5_AtMostOnce ==
    nfetch <= 1 /\ nwrite <= 1

C5_Witness ==
    /\ Ended
    /\ nfetch = 1 /\ nwrite = 1
    /\ file0.exists /\ ~(file = file0)

\* C6: of two calls in succession, the first beginning with no file or a
\* rejected one: the first makes exactly one fetch, and the second makes none
\* when the validator accepts the payload the first wrote.
C6_Idempotent ==
    (Ended /\ prev.any /\ prev.miss)
        => /\ prev.nfetch = 1
           /\ (prev.wrote.ok /\ prev.wrote.val \in accepted) => nfetch = 0

\* C7: a payload written by a refresh and re-read by the next call, the
\* provider unchanged and the validator accepting it, is returned equal to what
\* was written, and the file after the second call is the file before it.
C7_RoundTrip ==
    (Ended /\ prev.wrote.ok /\ upstream = prev.wrote /\ prev.wrote.val \in accepted)
        => /\ result = Return(prev.wrote.val)
           /\ file = file0

C7_Witness ==
    /\ pc = "returned"
    /\ prev.wrote.ok /\ upstream = prev.wrote /\ prev.wrote.val \in accepted
    /\ prev.wrote.val.kind = "dict" /\ Truthy(prev.wrote.val)
    /\ nfetch = 0
    /\ result = Return(prev.wrote.val)

----------------------------------------------------------------------------
\* Properties of Source.range.

Emitted == {out[i].date : i \in 1..Len(out)}

\* The days the scan visits: date_start, one day later, ... up to date_end.
Scanned == {d \in date_start..date_end : (d - date_start) % ONE_DAY = 0}

\* C8: for start <= end the yielded dates are strictly increasing and lie in
\* [start, end]; when the generator is exhausted they are exactly the scanned
\* days that have a price; every yielded price is the price of its date.
C8_RangeExact ==
    (rpc # "idle" /\ date_start <= date_end)
        => /\ \A i \in 1..Len(out) : \A j \in 1..Len(out) :
                 i < j => out[i].date < out[j].date
           /\ \A i \in 1..Len(out) :
                 /\ date_start <= out[i].date /\ out[i].date <= date_end
                 /\ out[i].price # None
                 /\ out[i].price = Price(out[i].date)
           /\ rpc = "done" => Emitted = {d \in Scanned : Price(d) # None}

C8_Witness ==
    /\ rpc = "done"
    /\ date_start = 0 /\ date_end = MaxDay * TicksPerDay
    /\ Price(date_start) = Some(0)
    /\ Price(date_start + ONE_DAY) = None
    /\ Price(date_end) = Some(1)
    /\ Len(out) = 2

\* C9: the cursor only ever moves forward by exactly one day, and a generator
\* that is consumed reaches its end, whatever the mapping.
C9_Terminates ==
    /\ [][rpc # "idle" /\ rpc # "done" => current' \in {current, current + ONE_DAY}]_vars
    /\ [][rpc = "l45" /\ rpc' = "l45" => current' = current + ONE_DAY]_vars
    /\ [][rpc = "l48" => current' = current + ONE_DAY]_vars
    /\ (rpc = "l44") ~> (rpc = "done")

C9_Witness ==
    /\ rpc = "done"
    /\ date_end >= date_start + 2 * ONE_DAY
    /\ \A d \in DateTimes : Price(d) = None
    /\ out = << >>
    /\ current > date_end

\* C10: for start > end nothing is yielded and the generator ends at its first
\* test, whether or not start or end have a price.
C10_EmptyWhenReversed ==
    (rpc # "idle" /\ date_start > date_end)
        => /\ out = << >>
           /\ rpc \in {"l44", "done"}

C10_Witness ==
    /\ rpc = "done"
    /\ date_start > date_end
    /\ Day(date_start) = Day(date_end)
    /\ Price(date_start) # None
    /\ out = << >>

\* C17: for start <= end, whatever their times of day, the calendar days
\* yielded are exactly the days from start's day to end's day that have a price.
C17_TimeOfDayIgnored ==
    (rpc = "done" /\ date_start <= date_end)
        => {Day(out[i].date) : i \in 1..Len(out)}
             = {d \in Day(date_start)..Day(date_end) : d \in DOMAIN self_data}

----------------------------------------------------------------------------
\* C20: when the queryer fails, the cache file at the end of the call is the
\* file the call began on: absent if it was absent, the same text otherwise.
C20_FailedRefreshKeepsFile ==
    (Ended /\ nfetch > 0 /\ ~upstream.ok)
        => /\ file = file0
           /\ nwrite = 0

C20_Witness ==
    /\ pc = "raised"
    /\ result = Raise("FetchFailure")
    /\ Parses0 /\ Cached0 \notin accepted
    /\ Cached0.kind = "dict" /\ Truthy(Cached0)
    /\ file = file0
    /\ nwrite = 0

----------------------------------------------------------------------------
\* Properties of a constructed source under queries.

\* C14: no price() call and no step of a range() generator, exhausted or
\* dropped half-way, changes the mapping, so price(d) answers the same for
\* every d ever after; none reads or writes the cache file or fetches.
C14_SourceImmutable ==
    [][/\ self_data' = self_data
       /\ \A d \in DateTimes : Price(d)' = Price(d)
       /\ price_ret'.called => price_ret'.val = Price(price_ret'.arg)
       /\ UNCHANGED <<file, pc, nfetch, nwrite>>]_vars

C14_Witness ==
    /\ price_ret.called /\ price_ret.val = Some(1)
    /\ gens[1].rpc = "l48" /\ Len(gens[1].out) = 1
    /\ gens[1].end > gens[1].current
    /\ Cardinality(DOMAIN self_data) = MaxDay + 1

\* C16: price(d) is None for a d whose calendar day is no key of the
\* mapping, and is decided by the calendar day of d alone.
C16_PriceAbsentIsNone ==
    price_ret.called =>
        /\ Day(price_ret.arg) \notin DOMAIN self_data => price_ret.val = None
        /\ Day(price_ret.arg) \in DOMAIN self_data
               => price_ret.val = Some(self_data[Day(price_ret.arg)])

C16_Witness ==
    /\ price_ret.called
    /\ price_ret.arg % TicksPerDay # 0
    /\ price_ret.val = Some(0)
    /\ Day(price_ret.arg) + 1 \notin DOMAIN self_data

RECURSIVE Scan(_, _, _)
\* What range(s, e) yields when consumed alone, from the cursor position c on.
Scan(c, e, acc) ==
    IF c > e THEN acc
    ELSE Scan(c + ONE_DAY, e,
              IF Price(c) # None THEN Append(acc, [date |-> c, price |-> Price(c)])
              ELSE acc)

IsPrefix(a, b) == Len(a) <= Len(b) /\ a = SubSeq(b, 1, Len(a))

\* C18: each generator, however the generators are interleaved and however
\* often range is called again, has yielded a prefix of what it yields alone,
\* and all of it once exhausted.
C18_IndependentScans ==
    \A g \in GenIds :
        gens[g].rpc # "idle" =>
            /\ IsPrefix(gens[g].out, Scan(gens[g].start, gens[g].end, << >>))
            /\ gens[g].rpc = "done" => gens[g].out = Scan(gens[g].start, gens[g].end, << >>)

C18_Witness ==
    /\ gens[1].rpc = "done" /\ Len(gens[1].out) >= 2
    /\ gens[2].rpc = "l48" /\ Len(gens[2].out) = 1
    /\ gens[2].start = gens[1].start /\ gens[2].end = gens[1].end

----------------------------------------------------------------------------
\* Properties of ETHPrice.__clean_raw_data.

SamplesOfDay(d) == {i \in 1..Len(raw.items) : SampleDay(raw.items[i].val) = d}

RECURSIVE SumOver(_)
SumOver(I) ==
    IF I = {} THEN 0
    ELSE LET i == CHOOSE j \in I : TRUE
         IN  Field(raw.items[i].val, "usd").num + SumOver(I \ {i})

\* c is total / n to the nearest cent
NearestCent(c, total, n) ==
    /\ 2 * (n * c - 100 * total) <= n
    /\ 2 * (100 * total - n * c) <= n

\* C15: for a time-ordered sample list the call ends; the result then has one
\* key per calendar day of the list, its value the mean of all of that day's
\* samples to the nearest cent, and every sample entered exactly one group.
C15_CleanGroupsByDay ==
    /\ [](clean_pc = "done" =>
            /\ DOMAIN cleaned = {d \in Days : SamplesOfDay(d) # {}}
            /\ \A d \in DOMAIN cleaned :
                  NearestCent(cleaned[d], SumOver(SamplesOfDay(d)),
                              Cardinality(SamplesOfDay(d)))
            /\ \A i \in 1..Len(raw.items) : taken[i] = 1)
    /\ (clean_pc = "l73") ~> (clean_pc = "done")

C15_Witness ==
    /\ clean_pc = "done"
    /\ raw = AsList(<<Sample(0, 1, 100), Sample(0, 2, 102), Sample(1, 1, 200)>>)
    /\ cleaned = [d \in {0, 1} |-> IF d = 0 THEN 10100 ELSE 20000]

----------------------------------------------------------------------------
\* Properties of get_source and of the constructors.

\* C11: once get_source has looked the name up, a name whose lower-case form
\* is "btc" or "eth" has selected the constructor of that variant, a source it
\* returns is of that variant, and it does not fail for want of a market; any
\* other name has raised the no-market exception carrying the name as given,
\* and get() was never entered: nothing read, fetched or written.
C11_GetSourceDispatch ==
    gs_pc # "idle" =>
        /\ Lower(source_name) = <<"b", "t", "c">> =>
              /\ constructor = "btc"
              /\ gs_pc = "returned" => gs_result = Constructed("btc")
              /\ gs_pc = "raised" => gs_result.err # "Exception"
        /\ Lower(source_name) = <<"e", "t", "h">> =>
              /\ constructor = "eth"
              /\ gs_pc = "returned" => gs_result = Constructed("eth")
              /\ gs_pc = "raised" => gs_result.err # "Exception"
        /\ Lower(source_name) \notin {<<"b", "t", "c">>, <<"e", "t", "h">>} =>
              /\ gs_pc = "raised"
              /\ gs_result.err = "Exception"
              /\ gs_result.msg = <<"No market is present for ">> \o source_name
              /\ pc = "idle"
              /\ nfetch = 0
              /\ nwrite = 0

C11_Witness ==
    /\ gs_pc = "returned"
    /\ source_name = <<"B", "t", "c">>
    /\ gs_result = Constructed("btc")

\* The value json.load gave for the file the constructor's get() began on.
Cached0Val == Load(file0.text).val

\* C12: get_source raises nothing but the no-market exception and a failure
\* of the fetch, and a cache file that parses but does not have the variant's
\* shape ends in exactly one fetch.
C12_OnlyDeclaredErrors ==
    /\ gs_pc = "raised" => gs_result.err \in {"Exception", "FetchFailure"}
    /\ (/\ BuildEnded
        /\ constructor # "none"
        /\ file0.exists
        /\ Load(file0.text).ok
        /\ CleanError(constructor, Cached0Val) # "") => nfetch = 1

\* C13: when get() of a constructor ends on a cache file holding a provider
\* payload for the days K, no fetch was made if and only if K has yesterday
\* (BTC) or today (ETH).
C13_FreshnessPerVariant ==
    (Ended /\ constructor # "none" /\ file0.exists /\ Load(file0.text).ok) =>
        \A K \in SUBSET Days :
            /\ (constructor = "btc" /\ Cached0Val = BpiOf(K)) =>
                  (nfetch = 0 <=> (today - 1) \in K)
            /\ (constructor = "eth" /\ Cached0Val = EthOf(K)) =>
                  (nfetch = 0 <=> today \in K)

C13_Witness ==
    /\ Ended
    /\ constructor = "btc"
    /\ today = 1
    /\ file0.exists
    /\ Cached0Val = BpiOf({0})
    /\ nfetch = 0

----------------------------------------------------------------------------
\* Properties of two processes sharing a cache file.

ProcsEnded == \A p \in ProcIds : procs[p].pc \in {"returned", "raised"}

\* C19: once both processes have left get(), both have returned, and if
\* either wrote, the file holds the text of the payload of the one whose
\* write came last, and nothing else.
C19_LastWriterWins ==
    ProcsEnded =>
        /\ \A p \in ProcIds : procs[p].pc = "returned"
        /\ lastw # 0 => file = FileOf(Dump(procs[lastw].result.val))

====
